---- MODULE Spec2Model ----
(***************************************************************************)
(* Model of crawl_website (src/Dawnxss.py, lines 115-154): the built-in    *)
(* breadth-first crawler of XSSdawn.                                       *)
(*                                                                         *)
(* A URL string is modelled by the five components urlparse splits it      *)
(* into: scheme, netloc, path, query, fragment.  The netloc is a sequence  *)
(* of tokens, so that Python's substring test `a in b` is a test on        *)
(* contiguous subsequences; the path is the list path.split('/').  Two     *)
(* URL strings of the universe are equal exactly when their components     *)
(* are equal.                                                              *)
(*                                                                         *)
(* The web is an input: the response to requests.get(u) is chosen when u   *)
(* is fetched.  As the crawler fetches a URL at most once per crawl, this  *)
(* ranges over every link graph whose fetched pages carry at most          *)
(* MaxAnchors anchors in total.                                            *)
(***************************************************************************)
EXTENDS Integers, Sequences, FiniteSets, TLC

\* ---------------------------------------------------------------- bounds
MaxPages == 3       \* largest page budget (max_pages) explored
MaxAnchors == 3     \* largest number of anchors in the responses of one crawl

\* ------------------------------------------------------- URL components
U(s, n, p, q, f) == [scheme |-> s, netloc |-> n, path |-> p, query |-> q, fragment |-> f]

ExampleCom == <<"example.com">>                 \* example.com
BlogExampleCom == <<"blog.", "example.com">>    \* blog.example.com
OtherOrg == <<"other.org">>                     \* other.org
OpenBracket == <<"[">>                          \* "[" : an unterminated IPv6 literal

\* the seeds: http://example.com/ and http://example.com/?s=1
Seed == U("http", ExampleCom, <<"", "">>, "", "")
SeedWithQuery == U("http", ExampleCom, <<"", "">>, "s=1", "")
Seeds == {Seed, SeedWithQuery}

\* the href attribute values that anchors of the modelled web may carry
HrefRootA == U("", <<>>, <<"", "a">>, "", "")                  \* /a
HrefQuery == U("", <<>>, <<>>, "q=1", "")                      \* ?q=1
HrefFragment == U("", <<>>, <<>>, "", "top")                   \* #top
HrefEmpty == U("", <<>>, <<>>, "", "")                         \* (empty string)
HrefSeed == U("http", ExampleCom, <<"", "">>, "", "")          \* http://example.com/
HrefBlog == U("http", BlogExampleCom, <<"", "x">>, "y=1", "")  \* http://blog.example.com/x?y=1
HrefOther == U("http", OtherOrg, <<"", "x">>, "y=1", "")       \* http://other.org/x?y=1
HrefMailto == U("mailto", <<>>, <<"a@b.com">>, "subject=x", "") \* mailto:a@b.com?subject=x
HrefFtp == U("ftp", ExampleCom, <<"", "f">>, "y=1", "")         \* ftp://example.com/f?y=1
HrefMalformed == U("http", OpenBracket, <<>>, "", "")          \* http://[

Hrefs == {HrefRootA, HrefQuery, HrefFragment, HrefEmpty, HrefSeed, HrefBlog,
          HrefOther, HrefMailto, HrefFtp, HrefMalformed}

\* the sequences of at most n elements of S
RECURSIVE SeqsUpTo(_, _)
SeqsUpTo(S, n) ==
    IF n = 0 THEN {<<>>}
    ELSE LET shorter == SeqsUpTo(S, n - 1)
         IN  shorter \cup {Append(s, x) : s \in shorter, x \in S}

\* ------------------------------------------------------- urllib.parse
\* Python's `a in b` on strings
IsSubstring(a, b) ==
    \E i \in 1..(Len(b) - Len(a) + 1) : SubSeq(b, i, i + Len(a) - 1) = a

\* urlsplit raises ValueError("Invalid IPv6 URL") on a netloc with "[" and no "]"
RaisesValueError(href) == IsSubstring(OpenBracket, href.netloc)

\* the schemes of urllib.parse.uses_relative / uses_netloc that occur here
UsesRelative == {"", "ftp", "http", "https"}

\* segments[1:-1] = filter(None, segments[1:-1])
FilterMiddle(segs) ==
    IF Len(segs) <= 2 THEN segs
    ELSE <<Head(segs)>>
         \o SelectSeq(SubSeq(segs, 2, Len(segs) - 1), LAMBDA s : s # "")
         \o <<segs[Len(segs)]>>

\* the path merge of urljoin (no "." or ".." segment occurs in the universe)
JoinPath(bpath, path) ==
    LET split == IF bpath = <<>> THEN <<"">> ELSE bpath
        base_parts == IF split[Len(split)] # "" THEN SubSeq(split, 1, Len(split) - 1)
                      ELSE split
    IN  IF Len(path) >= 2 /\ path[1] = "" THEN path
        ELSE FilterMiddle(base_parts \o path)

\* urljoin(base, url)
urljoin(base, url) ==
    IF url = HrefEmpty THEN base
    ELSE LET scheme == IF url.scheme = "" THEN base.scheme ELSE url.scheme
         IN  IF scheme # base.scheme \/ scheme \notin UsesRelative
             THEN url
             ELSE IF url.netloc # <<>>
             THEN U(scheme, url.netloc, url.path, url.query, url.fragment)
             ELSE IF url.path = <<>>
             THEN U(scheme, base.netloc, base.path,
                    IF url.query = "" THEN base.query ELSE url.query, url.fragment)
             ELSE U(scheme, base.netloc, JoinPath(base.path, url.path),
                    url.query, url.fragment)

\* "?" in absolute_url: in this universe "?" only occurs in front of a query
HasQuestionMark(absolute_url) == absolute_url.query # ""

VARIABLES
    start_url,          \* argument of crawl_website
    allow_subdomains,   \* argument of crawl_website
    max_pages,          \* argument of crawl_website
    visited,            \* set of URLs
    urls_with_params,   \* set of URLs: the value returned
    queue,              \* deque of URLs
    pc,                 \* "loop", "returned", or "raised" (ValueError left the function)
    log,                \* history: the requests.get calls made, in order, with their outcome
    found,              \* history: per status class, the URLs the anchors read so far point to
    anchors,            \* history: the number of anchors served so far
    page,               \* history: the anchors of the response to the latest requests.get
    edges               \* history: the links <<page URL, target URL>> read so far

vars == <<start_url, allow_subdomains, max_pages, visited, urls_with_params, queue, pc,
          log, found, anchors, page, edges>>

base_netloc == start_url.netloc


\* ------------------------------------------------------- crawl_website
\* the outcomes of requests.get(current_url, timeout=10): a response with a
\* 2xx status, a response with another status, or a RequestException
\* (connection error, timeout, ...)
Outcomes == {"2xx", "non2xx", "exception"}

\* variant: raise_for_status() is called on the response
RequestExceptionOrStatus(outcome) == outcome # "2xx"

\* requests.get raises only when no response was obtained; a response with
\* an error status is returned (raise_for_status is not called)
RequestException(outcome) == outcome = "exception"

\* variant: while queue and len(visited) <= max_pages
LoopConditionOffByOne(q, vis, budget) == q # <<>> /\ Cardinality(vis) <= budget

\* the loop condition: while queue and len(visited) < max_pages
LoopCondition(q, vis, budget) == q # <<>> /\ Cardinality(vis) < budget

\* variant: the membership test is missing
AlreadyVisitedNever(current_url, vis) == FALSE

\* if current_url in visited: continue
AlreadyVisited(current_url, vis) == current_url \in vis

\* visited.add(current_url)
VisitedAdd(vis, current_url) == vis \cup {current_url}

\* variant: the scheme filter is missing
SchemeAcceptedAny(parsed) == TRUE

\* if parsed.scheme not in ["http", "https"]: continue
SchemeAccepted(parsed) == parsed.scheme \in {"http", "https"}

\* variant: the substring test is applied whatever allow_subdomains
InScopeSubstring(allow, base, netloc) == IsSubstring(base, netloc)

\* variant: the equality test is applied whatever allow_subdomains
InScopeExact(allow, base, netloc) == netloc = base

\* the scope test on parsed.netloc
InScope(allow, base, netloc) ==
    IF ~allow THEN netloc = base ELSE IsSubstring(base, netloc)

\* variant: a URL already in the queue is not appended again
EnqueueOnce(q, vis, absolute_url) ==
    IF absolute_url \notin vis /\ \A i \in 1..Len(q) : q[i] # absolute_url
    THEN Append(q, absolute_url) ELSE q

\* variant: queue.appendleft(absolute_url)
EnqueueFront(q, vis, absolute_url) ==
    IF absolute_url \notin vis THEN <<absolute_url>> \o q ELSE q

\* if absolute_url not in visited: queue.append(absolute_url)
Enqueue(q, vis, absolute_url) ==
    IF absolute_url \notin vis THEN Append(q, absolute_url) ELSE q

\* if "?" in absolute_url: urls_with_params.add(absolute_url)
Collect(urls, absolute_url) ==
    IF HasQuestionMark(absolute_url) THEN urls \cup {absolute_url} ELSE urls

\* variant: find_all keeps only the anchors whose href is not empty
HrefSelectedNonEmpty(href) == href # HrefEmpty

\* soup.find_all("a", href=True): an anchor that has the attribute is kept
\* whatever its value, the empty string included
HrefSelected(href) == TRUE

\* variant: the "?" test is nested in `if absolute_url not in visited`
RECURSIVE LinkLoopNested(_, _, _, _, _, _, _)
LinkLoopNested(links, current_url, vis, q, urls, allow, base) ==
    IF links = <<>> THEN [queue |-> q, urls |-> urls, raised |-> FALSE]
    ELSE LET href == Head(links)
         IN  IF RaisesValueError(href)
             THEN [queue |-> q, urls |-> urls, raised |-> TRUE]
             ELSE LET absolute_url == urljoin(current_url, href)
                  IN  IF HrefSelected(href)
                         /\ SchemeAccepted(absolute_url)
                         /\ InScope(allow, base, absolute_url.netloc)
                      THEN LinkLoopNested(Tail(links), current_url, vis,
                                          Enqueue(q, vis, absolute_url),
                                          IF absolute_url \notin vis
                                          THEN Collect(urls, absolute_url) ELSE urls,
                                          allow, base)
                      ELSE LinkLoopNested(Tail(links), current_url, vis, q, urls, allow, base)

\* the for loop over soup.find_all("a", href=True); a ValueError raised by
\* urljoin or urlparse is not caught and leaves crawl_website
RECURSIVE LinkLoop(_, _, _, _, _, _, _)
LinkLoop(links, current_url, vis, q, urls, allow, base) ==
    IF links = <<>> THEN [queue |-> q, urls |-> urls, raised |-> FALSE]
    ELSE LET href == Head(links)
         IN  IF RaisesValueError(href)
             THEN [queue |-> q, urls |-> urls, raised |-> TRUE]
             ELSE LET absolute_url == urljoin(current_url, href)
                  IN  IF HrefSelected(href)
                         /\ SchemeAccepted(absolute_url)
                         /\ InScope(allow, base, absolute_url.netloc)
                      THEN LinkLoop(Tail(links), current_url, vis,
                                    Enqueue(q, vis, absolute_url),
                                    Collect(urls, absolute_url), allow, base)
                      ELSE LinkLoop(Tail(links), current_url, vis, q, urls, allow, base)

\* ------------------------------------------------------- the network
\* what requests.get may produce: an exception carries no response; a
\* response carries the anchors (with an href) of its body, in document order
Responses(outcome) ==
    IF outcome = "exception" THEN {<<>>}
    ELSE SeqsUpTo(Hrefs, MaxAnchors - anchors)

\* the anchors of a body up to the first whose href cannot be parsed
RECURSIVE Readable(_)
Readable(body) ==
    IF body = <<>> \/ RaisesValueError(Head(body)) THEN <<>>
    ELSE <<Head(body)>> \o Readable(Tail(body))

\* the absolute URLs the readable anchors of a page point to
Targets(current_url, body) ==
    {urljoin(current_url, Readable(body)[i]) : i \in 1..Len(Readable(body))}

Record(current_url, outcome, body) ==
    /\ page' = body
    /\ log' = Append(log, [url |-> current_url, outcome |-> outcome])
    /\ found' = IF outcome = "exception" THEN found
                ELSE [found EXCEPT ![outcome] = @ \cup Targets(current_url, body)]
    /\ anchors' = anchors + Len(body)
    /\ edges' = IF outcome = "exception" THEN edges
                ELSE edges \cup {<<current_url, t>> : t \in Targets(current_url, body)}

\* variant: a seed that contains "?" is collected before the loop
InitSeedCollected ==
    /\ start_url \in Seeds
    /\ allow_subdomains \in BOOLEAN
    /\ max_pages \in 0..MaxPages
    /\ visited = {}
    /\ urls_with_params = Collect({}, start_url)
    /\ queue = <<start_url>>
    /\ pc = "loop"
    /\ log = <<>>
    /\ found = [o \in {"2xx", "non2xx"} |-> {}]
    /\ anchors = 0
    /\ page = <<>>
    /\ edges = {}

Init ==
    /\ start_url \in Seeds
    /\ allow_subdomains \in BOOLEAN
    /\ max_pages \in 0..MaxPages
    /\ visited = {}
    /\ urls_with_params = {}
    /\ queue = <<start_url>>
    /\ pc = "loop"
    /\ log = <<>>
    /\ found = [o \in {"2xx", "non2xx"} |-> {}]
    /\ anchors = 0
    /\ page = <<>>
    /\ edges = {}

\* an iteration that pops a URL already visited
SkipVisited ==
    /\ pc = "loop"
    /\ LoopCondition(queue, visited, max_pages)
    /\ AlreadyVisited(Head(queue), visited)
    /\ queue' = Tail(queue)
    /\ UNCHANGED <<start_url, allow_subdomains, max_pages, visited, urls_with_params, pc,
                   log, found, anchors, page, edges>>

\* variant: the exception is not caught and leaves crawl_website
FetchFailedUncaught ==
    /\ pc = "loop"
    /\ LoopCondition(queue, visited, max_pages)
    /\ ~AlreadyVisited(Head(queue), visited)
    /\ \E outcome \in Outcomes : \E body \in Responses(outcome) :
          /\ RequestException(outcome)
          /\ Record(Head(queue), outcome, body)
    /\ visited' = VisitedAdd(visited, Head(queue))
    /\ queue' = Tail(queue)
    /\ pc' = "raised"
    /\ UNCHANGED <<start_url, allow_subdomains, max_pages, urls_with_params>>

\* variant: the except clause also discards the failed URL from the result
FetchFailedDiscards ==
    /\ pc = "loop"
    /\ LoopCondition(queue, visited, max_pages)
    /\ ~AlreadyVisited(Head(queue), visited)
    /\ \E outcome \in Outcomes : \E body \in Responses(outcome) :
          /\ RequestException(outcome)
          /\ Record(Head(queue), outcome, body)
    /\ visited' = VisitedAdd(visited, Head(queue))
    /\ queue' = Tail(queue)
    /\ urls_with_params' = urls_with_params \ {Head(queue)}
    /\ UNCHANGED <<start_url, allow_subdomains, max_pages, pc>>

\* an iteration whose requests.get ends in the except clause
FetchFailed ==
    /\ pc = "loop"
    /\ LoopCondition(queue, visited, max_pages)
    /\ ~AlreadyVisited(Head(queue), visited)
    /\ \E outcome \in Outcomes : \E body \in Responses(outcome) :
          /\ RequestException(outcome)
          /\ Record(Head(queue), outcome, body)
    /\ visited' = VisitedAdd(visited, Head(queue))
    /\ queue' = Tail(queue)
    /\ UNCHANGED <<start_url, allow_subdomains, max_pages, urls_with_params, pc>>

\* an iteration whose requests.get returns a response and whose anchors are read
FetchPage ==
    /\ pc = "loop"
    /\ LoopCondition(queue, visited, max_pages)
    /\ ~AlreadyVisited(Head(queue), visited)
    /\ \E outcome \in Outcomes : \E body \in Responses(outcome) :
          /\ ~RequestException(outcome)
          /\ LET current_url == Head(queue)
                 vis == VisitedAdd(visited, current_url)
                 r == LinkLoop(body, current_url, vis, Tail(queue), urls_with_params,
                               allow_subdomains, base_netloc)
             IN  /\ Record(current_url, outcome, body)
                 /\ visited' = vis
                 /\ queue' = r.queue
                 /\ urls_with_params' = r.urls
                 /\ pc' = IF r.raised THEN "raised" ELSE "loop"
    /\ UNCHANGED <<start_url, allow_subdomains, max_pages>>

\* the loop condition fails: return urls_with_params
Return ==
    /\ pc = "loop"
    /\ ~LoopCondition(queue, visited, max_pages)
    /\ pc' = "returned"
    /\ UNCHANGED <<start_url, allow_subdomains, max_pages, visited, urls_with_params, queue,
                   log, found, anchors, page, edges>>

Next ==
    \/ SkipVisited
    \/ FetchFailed
    \/ FetchPage
    \/ Return

Spec == Init /\ [][Next]_vars

\* the interpreter runs the loop to its end
FairSpec == Spec /\ WF_vars(Next)

\* ------------------------------------------------------- properties
Range(q) == {q[i] : i \in 1..Len(q)}
Last(q) == q[Len(q)]
Min(a, b) == IF a <= b THEN a ELSE b

\* the URLs that requests.get was called on
Fetched == {log[i].url : i \in 1..Len(log)}

\* the URLs the anchors read so far point to
AllFound == found["2xx"] \cup found["non2xx"]

\* the scheme is http or https
HttpScheme(u) == u.scheme = "http" \/ u.scheme = "https"

\* the scope rule: the seed's host, or with allow_subdomains a host that
\* contains it
ScopeRule(u) ==
    \/ ~allow_subdomains /\ u.netloc = start_url.netloc
    \/ allow_subdomains /\ IsSubstring(start_url.netloc, u.netloc)

\* an in-scope http(s) URL
Accepted(u) == HttpScheme(u) /\ ScopeRule(u)

\* this step called requests.get
FetchStep == log' # log

\* C1: no URL is fetched more than once: a fetch of u is only issued in the
\* step that adds u to visited, visited grows by exactly one element in that
\* step, and a URL once in visited is never removed from it.
C1_NoDuplicateFetch ==
    /\ [](\A i, j \in 1..Len(log) : log[i].url = log[j].url => i = j)
    /\ [][/\ visited \subseteq visited'
          /\ FetchStep =>
                /\ Len(log') = Len(log) + 1
                /\ SubSeq(log', 1, Len(log)) = log
                /\ Last(log').url = Head(queue)
                /\ Last(log').url \notin visited
                /\ visited' = visited \cup {Last(log').url}
          /\ visited' # visited =>
                /\ FetchStep
                /\ Cardinality(visited') = Cardinality(visited) + 1]_vars

\* a visited URL waits in the queue after a later fetch: the case in which a
\* second fetch of it could be issued
C1_Witness ==
    /\ Len(log) >= 2
    /\ \E u \in visited : u \in Range(queue)
    /\ LoopCondition(queue, visited, max_pages)

\* C2: for every max_pages >= 0, in every reachable state |visited| <=
\* max_pages and the number of fetch attempts is <= max_pages, however many
\* links the pages contain; with max_pages = 0 no fetch is made and the
\* returned set is empty.
C2_BudgetRespected ==
    /\ max_pages >= 0
    /\ Cardinality(visited) <= max_pages
    /\ Len(log) <= max_pages
    /\ max_pages = 0 => log = <<>> /\ urls_with_params = {}

\* the budget ends a crawl whose queue still holds URLs never visited
C2_Witness ==
    /\ pc = "returned"
    /\ max_pages > 0
    /\ Cardinality(visited) = max_pages
    /\ \E u \in Range(queue) : u \notin visited

\* C3: the crawl always terminates and returns the result set, for every
\* link graph, every finite max_pages and every pattern of fetch outcomes:
\* the loop ends, and it ends only by the return that follows an empty queue
\* or an exhausted budget.
C3_TerminatesAndReturns ==
    /\ <>(pc = "returned")
    /\ [](pc # "loop" =>
            /\ pc = "returned"
            /\ (queue = <<>> \/ Cardinality(visited) >= max_pages))

\* C4: when every fetch succeeds, the crawl ends with |visited| =
\* min(max_pages, N), N being the number of distinct in-scope http(s) URLs
\* reachable from the seed through anchors, seed included.  The link graph
\* is the one that agrees with the responses served and has no anchor on a
\* page that was never requested.
Reachable == {start_url} \cup {u \in AllFound : Accepted(u)}

EveryFetchSucceeds == \A i \in 1..Len(log) : log[i].outcome = "2xx"

C4_VisitedAtTermination ==
    (pc # "loop" /\ EveryFetchSucceeds) =>
        Cardinality(visited) = Min(max_pages, Cardinality(Reachable))

\* C5: with allow_subdomains = false every URL in the queue, in visited
\* (hence every URL fetched) and in the result has the seed's host; a link
\* with another host is never enqueued nor collected, query string or not.
C5_ExactScope ==
    ~allow_subdomains =>
        /\ \A u \in Range(queue) \cup visited \cup Fetched \cup urls_with_params :
              u.netloc = start_url.netloc
        /\ \A u \in AllFound :
              u.netloc # start_url.netloc =>
                  u \notin Range(queue) \cup visited \cup urls_with_params

\* a page linked to http://blog.example.com/x?y=1 and the crawl returned
C5_Witness ==
    /\ ~allow_subdomains
    /\ pc = "returned"
    /\ HrefBlog \in AllFound

\* C6: with allow_subdomains = true a link read on a fetched page whose host
\* contains the seed host as a substring is enqueued unless already visited
\* (so it is in the queue until it is popped and then in visited), and is in
\* the result if it contains "?"; a link whose host does not contain the seed
\* host is never enqueued and never in the result.
C6_SubdomainScope ==
    allow_subdomains =>
        \A u \in AllFound :
            /\ (HttpScheme(u) /\ IsSubstring(start_url.netloc, u.netloc)) =>
                  /\ u \in Range(queue) \cup visited
                  /\ HasQuestionMark(u) => u \in urls_with_params
            /\ ~IsSubstring(start_url.netloc, u.netloc) =>
                  u \notin Range(queue) \cup visited \cup urls_with_params

\* http://blog.example.com/x?y=1 is enqueued and collected, and a link to
\* other.org was read
C6_Witness ==
    /\ allow_subdomains
    /\ HrefBlog \in Range(queue)
    /\ HrefBlog \in urls_with_params
    /\ HrefOther \in AllFound

\* C7: every in-scope http(s) URL containing "?" that an anchor of a fetched
\* page points to is in the returned set (a set: each URL is there once).
C7_QueryLinksReturned ==
    pc = "returned" =>
        \A u \in AllFound : (Accepted(u) /\ HasQuestionMark(u)) => u \in urls_with_params

\* a query URL was linked from a page and was already visited when read
C7_Witness ==
    /\ pc = "returned"
    /\ \E u \in AllFound : Accepted(u) /\ HasQuestionMark(u) /\ u = log[1].url

\* C8: a link whose scheme is not http or https is never enqueued, never
\* fetched and never collected, whatever allow_subdomains and query string.
C8_SchemeExclusion ==
    /\ \A u \in Range(queue) \cup visited \cup Fetched \cup urls_with_params : HttpScheme(u)
    /\ \A u \in AllFound :
          ~HttpScheme(u) => u \notin Range(queue) \cup visited \cup urls_with_params

\* a page linked to ftp://example.com/f?y=1 and to mailto:a@b.com?subject=x
C8_Witness ==
    /\ pc = "returned"
    /\ HrefFtp \in AllFound
    /\ HrefMailto \in AllFound

\* C9: a RequestException on the dequeued URL is neither fatal nor retried:
\* the URL stays in visited and counts against the budget, the step adds
\* nothing to the queue or to the result, the URL is not fetched again, and
\* the loop goes on with the rest of the queue.
C9_FetchErrorTolerated ==
    /\ [](\A i \in 1..Len(log) :
            log[i].outcome = "exception" =>
                /\ log[i].url \in visited
                /\ Cardinality(visited) <= max_pages
                /\ \A j \in 1..Len(log) : log[j].url = log[i].url => j = i)
    /\ [][(FetchStep /\ Last(log').outcome = "exception") =>
            /\ visited' = visited \cup {Head(queue)}
            /\ queue' = Tail(queue)
            /\ urls_with_params' = urls_with_params
            /\ pc' = "loop"]_vars

\* a fetch failed, a later page was fetched, and the crawl returned a query URL
C9_Witness ==
    /\ pc = "returned"
    /\ urls_with_params # {}
    /\ \E i, j \in 1..Len(log) :
          i < j /\ log[i].outcome = "exception" /\ log[j].outcome = "2xx"

\* C10 (as claimed): a response with a non-2xx status is treated like a
\* fetch error: its links are not extracted, the URL adds nothing to the
\* queue and nothing to the result.
C10_Non2xxIsFetchError ==
    [][(FetchStep /\ Last(log').outcome = "non2xx") =>
            /\ queue' = Tail(queue)
            /\ urls_with_params' = urls_with_params]_vars

\* C10 (amended): a response with a non-2xx status is read like any other
\* response: every accepted link of it is enqueued unless visited, and
\* collected if it contains "?".
C10_Non2xxIsRead ==
    \A u \in found["non2xx"] :
        Accepted(u) =>
            /\ u \in Range(queue) \cup visited
            /\ HasQuestionMark(u) => u \in urls_with_params

\* a link only seen on a non-2xx page is enqueued and collected
C10_Witness ==
    \E u \in found["non2xx"] \ found["2xx"] :
        u \in Range(queue) /\ u \in urls_with_params

\* C11: no failure while one queued URL is processed ends the crawl
\* abnormally: a failed fetch, a body that is not HTML, or an href that cannot
\* be resolved or parsed; the crawl moves on and returns the result set.
C11_NoAbnormalEnd == pc # "raised"

FetchOfFailed(u) == \E i \in 1..Len(log) : log[i].url = u /\ log[i].outcome = "exception"

\* C13: whether a link is in the result does not depend on its being
\* fetched: in every state, an in-scope http(s) link with "?" read on a page
\* is in the result, also when it was visited already, when it is never
\* dequeued, and when its own fetch fails; it is never taken out again.
C13_CollectedWhateverTheFetch ==
    /\ [](\A u \in AllFound : (Accepted(u) /\ HasQuestionMark(u)) => u \in urls_with_params)
    /\ [][urls_with_params \subseteq urls_with_params']_vars

\* the returned set holds a link that was visited when read, a link whose
\* fetch failed, and a link still in the queue when the budget ran out
C13_Witness ==
    /\ pc = "returned"
    /\ \E e \in edges : e[1] = e[2] /\ e[2] \in urls_with_params
    /\ \E u \in urls_with_params : FetchOfFailed(u)
    /\ \E u \in urls_with_params : u \in Range(queue) /\ u \notin visited

\* this step called requests.get and got a response
PageStep == FetchStep /\ Last(log').outcome # "exception"

\* what reading the anchors of a page appends to the queue: the in-scope
\* http(s) targets not in vis, in document order, repetitions included
RECURSIVE Appended(_, _, _)
Appended(current_url, links, vis) ==
    IF links = <<>> THEN <<>>
    ELSE LET t == urljoin(current_url, Head(links))
         IN  (IF Accepted(t) /\ t \notin vis THEN <<t>> ELSE <<>>)
             \o Appended(current_url, Tail(links), vis)

\* C14: an accepted candidate is appended to the tail of the queue if and
\* only if it is not in visited at that moment, whether or not it is in the
\* queue already; an iteration that pops a visited URL issues no fetch and
\* changes nothing but the head of the queue.
C14_AppendAndSkip ==
    [][/\ (pc = "loop" /\ queue # <<>> /\ Cardinality(visited) < max_pages
              /\ Head(queue) \in visited) =>
            /\ queue' = Tail(queue)
            /\ log' = log
            /\ visited' = visited
            /\ urls_with_params' = urls_with_params
       /\ PageStep =>
            queue' = Tail(queue) \o Appended(Head(queue), Readable(page'), visited')]_vars

\* three anchors of the seed page pointed to one URL: it was fetched once,
\* one repetition was popped and skipped, one is still in the queue
C14_Witness ==
    /\ pc = "loop"
    /\ Len(log) = 2
    /\ page = <<>>
    /\ anchors = 3
    /\ Cardinality(edges) = 1
    /\ Len(queue) = 1
    /\ queue[1] \in visited

\* a page all of whose anchors carry the given href
OnlyHref(body, href) == body # <<>> /\ \A i \in 1..Len(body) : body[i] = href

\* C15 (as claimed): an anchor whose href is the empty string adds nothing
\* to the queue and nothing to the result, also when the URL of the page
\* contains "?".
C15_EmptyHrefIgnored ==
    [][(PageStep /\ OnlyHref(page', HrefEmpty)) =>
            /\ queue' = Tail(queue)
            /\ urls_with_params' = urls_with_params]_vars

\* C15 (amended): an anchor whose href is the empty string is read as a link
\* to the page itself: it adds nothing to the queue, and it adds the URL of
\* the page to the result when that URL contains "?".
C15_EmptyHrefIsCurrent ==
    [][/\ (PageStep /\ OnlyHref(page', HrefEmpty)) =>
            /\ queue' = Tail(queue)
            /\ urls_with_params' =
                  urls_with_params \cup
                      (IF HasQuestionMark(Head(queue)) THEN {Head(queue)} ELSE {})
       /\ (PageStep /\ \E i \in 1..Len(Readable(page')) : Readable(page')[i] = HrefEmpty) =>
            /\ HasQuestionMark(Head(queue)) => Head(queue) \in urls_with_params'
            /\ \A i \in Len(queue)..Len(queue') : queue'[i] # Head(queue)]_vars

\* the page of a seed with a query carries one anchor with an empty href: the
\* seed is in the result and nothing was enqueued
C15_Witness ==
    /\ Len(log) = 1
    /\ HasQuestionMark(start_url)
    /\ page = <<HrefEmpty>>
    /\ queue = <<>>
    /\ urls_with_params = {start_url}

\* two URLs of one page: they differ in the fragment at most
SamePage(u, v) == [u EXCEPT !.fragment = ""] = [v EXCEPT !.fragment = ""]

\* C16: a fragment-only href on a page resolves to the page itself, so
\* reading it never adds a queue entry and never leads to another fetch of
\* the same page.
C16_FragmentResolvesToCurrent ==
    /\ [](\A i, j \in 1..Len(log) : SamePage(log[i].url, log[j].url) => i = j)
    /\ [][(PageStep /\ OnlyHref(page', HrefFragment)) => queue' = Tail(queue)]_vars

\* the URLs at most n links from the seed, through in-scope http(s) links of
\* the pages read
RECURSIVE Within(_)
Within(n) ==
    IF n = 0 THEN {start_url}
    ELSE LET near == Within(n - 1)
         IN  near \cup {e[2] : e \in {x \in edges : x[1] \in near /\ Accepted(x[2])}}

\* the link distance of a reachable URL from the seed
Distance(u) == CHOOSE n \in 0..Cardinality(edges) : u \in Within(n) /\ \A m \in 0..(n - 1) : u \notin Within(m)

NoFetchFailed == \A i \in 1..Len(log) : log[i].outcome # "exception"

====
